---- MODULE Spec2Model ----
(***************************************************************************)
(* extract_videos.py: splitting "motion photo" JPEG files into the video   *)
(* container appended after the image.  Bytes are integers 0..255, byte    *)
(* strings are sequences; Python's 0-based index k is element k+1.         *)
(***************************************************************************)
EXTENDS Integers, Sequences, FiniteSets, TLC

VARIABLES
    data,               \* the byte buffer under analysis
    jpeg_end,           \* find_appended_mp4's second argument
    located,            \* what find_appended_mp4 returned
    lpc,                \* position of the locator run
    expected,           \* the payloads the buffer was built to hold, when known
    i,                  \* extract_xmp_packets: the scan position
    packets,            \* extract_xmp_packets: the payloads collected
    iters,              \* loop iterations of extract_xmp_packets so far
    advance,            \* what the last continuing iteration added to i
    top,                \* one past the highest index the scan has read
    xpc,                \* position of the scan
    REQUIRE_XMP_MOTION, \* the setting of the same name
    built,              \* how the file under extraction was put together
    result,             \* what extract_from_file computed, once it returned
    out_files,          \* the output directory: stem of the .mp4 -> its bytes
    epc,                \* position of the extract_from_file call
    listing,            \* INPUT_DIR: its JPEG-named files, in listing order
    case_sensitive,     \* whether glob patterns match case-sensitively here
    ext,                \* main: how many of the four patterns were started
    pending,            \* main: what the running glob has still to yield
    count_total,        \* main
    count_extracted,    \* main
    extracted_videos,   \* main
    writers,            \* the candidates whose extraction wrote a file, in order
    pc                  \* position of main

locateVars == <<jpeg_end, located, lpc>>
xmpVars == <<expected, i, packets, iters, advance, top, xpc>>
extractVars == <<built, result, epc>>
sharedVars == <<REQUIRE_XMP_MOTION, out_files>>
mainVars ==
    <<listing, case_sensitive, ext, pending, count_total, count_extracted,
      extracted_videos, writers, pc>>
vars == <<data, locateVars, xmpVars, extractVars, sharedVars, mainVars>>

(* ------------------------------------------------------------------ *)
(* bounds of the model                                                *)
(* ------------------------------------------------------------------ *)
MaxChunks == 4
MaxScanBytes == 6
MaxSegments == 2
MaxMeta == 2
MaxFiles == 2

(* ------------------------------------------------------------------ *)
(* Python values                                                      *)
(* ------------------------------------------------------------------ *)
None == << >>
Some(x) == <<x>>
Val(o) == o[1]

Min(a, b) == IF a < b THEN a ELSE b
Max(a, b) == IF a > b THEN a ELSE b

\* a slice bound as Python normalises it
SliceIndex(k, n) == IF k < 0 THEN Max(n + k, 0) ELSE Min(k, n)

\* data[a:b]
Slice(s, a, b) ==
    LET lo == SliceIndex(a, Len(s))
        hi == SliceIndex(b, Len(s))
    IN  IF hi <= lo THEN << >> ELSE SubSeq(s, lo + 1, hi)

\* data[a:]
SliceFrom(s, a) == Slice(s, a, Len(s))

\* data.startswith(p)
StartsWith(s, p) == Len(s) >= Len(p) /\ \A j \in 1..Len(p) : s[j] = p[j]

\* sub occurs in s at the 0-based index k
OccursAt(s, sub, k) == \A j \in 1..Len(sub) : s[k + j] = sub[j]

\* data.find(sub): the lowest index of an occurrence, -1 when there is none
Find(s, sub) ==
    LET hits == { k \in 0..(Len(s) - Len(sub)) : OccursAt(s, sub, k) }
    IN  IF hits = {} THEN -1 ELSE CHOOSE k \in hits : \A m \in hits : k <= m

\* data.rfind(sub): the highest index of an occurrence, -1 when there is none
RFind(s, sub) ==
    LET hits == { k \in 0..(Len(s) - Len(sub)) : OccursAt(s, sub, k) }
    IN  IF hits = {} THEN -1 ELSE CHOOSE k \in hits : \A m \in hits : k >= m

\* sub in data
Contains(s, sub) == Find(s, sub) # -1

RECURSIVE FromBytesBig(_)
\* int.from_bytes(b, "big", signed=False)
FromBytesBig(b) ==
    IF Len(b) = 0 THEN 0
    ELSE 256 * FromBytesBig(SubSeq(b, 1, Len(b) - 1)) + b[Len(b)]

(* ------------------------------------------------------------------ *)
(* byte strings of the program                                        *)
(* ------------------------------------------------------------------ *)
SOI == <<255, 216>>
EOI == <<255, 217>>
FTYP == <<102, 116, 121, 112>>
MinBoxSize == 16

\* a reading of the size field with the byte order reversed
WideFromBytesLittle(b) ==
    IF Len(b) <= 3 THEN [hi |-> 0, lo |-> FromBytesBig([j \in 1..Len(b) |-> b[Len(b) + 1 - j]])]
    ELSE [hi |-> b[Len(b)],
          lo |-> FromBytesBig([j \in 1..3 |-> b[Len(b) - j]])]

\* Python integers are unbounded and a 4-byte unsigned value exceeds 32-bit
\* signed integers: it is kept as two limbs, value = hi * 2^24 + lo, where
\* hi is the first byte and lo the value of the last three.
WideFromBytesBig(b) ==
    IF Len(b) <= 3 THEN [hi |-> 0, lo |-> FromBytesBig(b)]
    ELSE [hi |-> FromBytesBig(SubSeq(b, 1, Len(b) - 3)),
          lo |-> FromBytesBig(SubSeq(b, Len(b) - 2, Len(b)))]

\* w < m, for a small m
WideLess(w, m) == w.hi = 0 /\ w.lo < m

(* ------------------------------------------------------------------ *)
(* find_jpeg_eoi                                                      *)
(* ------------------------------------------------------------------ *)
\* a boundary locator that takes the last FFD9 of the buffer
find_jpeg_eoi_last(d) ==
    LET idx == RFind(d, EOI)
    IN  IF idx = -1 THEN None ELSE Some(idx + 2)

find_jpeg_eoi(d) ==
    LET idx == Find(d, EOI)
    IN  IF idx = -1 THEN None ELSE Some(idx + 2)

(* ------------------------------------------------------------------ *)
(* find_appended_mp4                                                  *)
(* ------------------------------------------------------------------ *)
\* a locator without the sanity check of the size
SizeAny(mp4_size) == TRUE

\* the 4-byte size in front of the signature passes the sanity check
SizeOk(mp4_size) == ~WideLess(mp4_size, MinBoxSize)

\* a locator that forgets to reject a start in front of the tail
StartAnywhere(mp4_start_in_tail) == TRUE

\* the candidate start does not lie in front of the tail
StartInTail(mp4_start_in_tail) == ~(mp4_start_in_tail < 0)

\* a locator that examines the last occurrence of the signature instead
SignatureIndexLast(tail_data) == RFind(tail_data, FTYP)

\* which occurrence of the signature in the tail is examined
SignatureIndex(tail_data) == Find(tail_data, FTYP)

find_appended_mp4(d, je) ==
    LET tail_data == SliceFrom(d, je)
        idx == SignatureIndex(tail_data)
        mp4_start_in_tail == idx - 4
        mp4_start == je + mp4_start_in_tail
        size_bytes == Slice(d, mp4_start, mp4_start + 4)
        mp4_size == WideFromBytesBig(size_bytes)
    IN  IF idx = -1 THEN None
        ELSE IF ~StartInTail(mp4_start_in_tail) THEN None
        ELSE IF mp4_start + 8 > Len(d) THEN None
        ELSE IF ~SizeOk(mp4_size) THEN None
        ELSE Some(mp4_start)

(* ------------------------------------------------------------------ *)
(* extract_xmp_packets                                                *)
(* ------------------------------------------------------------------ *)
\* "http://ns.adobe.com/xap/1.0/"
xmp_sig ==
    <<104, 116, 116, 112, 58, 47, 47, 110, 115, 46, 97, 100, 111, 98, 101, 46,
      99, 111, 109, 47, 120, 97, 112, 47, 49, 46, 48, 47>>

MarkerEOI == 217
MarkerSOS == 218

\* a scan that accepts every segment length
LenAny(seg_len) == TRUE

\* the segment length covers at least its own two bytes
LenOk(seg_len) == ~(seg_len < 2)

\* a scan that keeps the zero byte in front of the packet
PacketFromZero(segment) ==
    LET zero_idx == Find(segment, <<0>>)
    IN  IF zero_idx # -1 THEN SliceFrom(segment, zero_idx) ELSE segment

\* what is appended for a segment that starts with the signature
PacketOf(segment) ==
    LET zero_idx == Find(segment, <<0>>)
    IN  IF zero_idx # -1 THEN SliceFrom(segment, zero_idx + 1) ELSE segment

\* one iteration of the while loop, entered with pos < n - 1: whether it ends
\* the loop, the scan position and the list after it, and one past the highest
\* index it reads
XmpIteration(d, pos, pk) ==
    LET n == Len(d)
        marker == d[pos + 2]                      \* data[i + 1]
        j == pos + 2                              \* i += 2
        seg_len == FromBytesBig(Slice(d, j, j + 2))
        seg_start == j + 2
        seg_end == seg_start + seg_len - 2
        segment == Slice(d, seg_start, seg_end)
    IN  IF d[pos + 1] # 255
            THEN [stop |-> TRUE, i |-> pos, packets |-> pk, top |-> pos + 1]
        ELSE IF marker \in {MarkerEOI, MarkerSOS}
            THEN [stop |-> TRUE, i |-> j, packets |-> pk, top |-> pos + 2]
        ELSE IF j + 2 > n
            THEN [stop |-> TRUE, i |-> j, packets |-> pk, top |-> pos + 2]
        ELSE IF ~LenOk(seg_len)
            THEN [stop |-> TRUE, i |-> j, packets |-> pk, top |-> j + 2]
        ELSE IF seg_end > n
            THEN [stop |-> TRUE, i |-> j, packets |-> pk, top |-> j + 2]
        ELSE [stop |-> FALSE,
              i |-> seg_end,
              packets |-> IF StartsWith(segment, xmp_sig)
                          THEN Append(pk, PacketOf(segment)) ELSE pk,
              top |-> Max(j + 2, seg_end)]

RECURSIVE XmpLoop(_, _, _)
XmpLoop(d, pos, pk) ==
    IF ~(pos < Len(d) - 1) THEN pk
    ELSE LET r == XmpIteration(d, pos, pk)
         IN  IF r.stop THEN r.packets ELSE XmpLoop(d, r.i, r.packets)

extract_xmp_packets(d) ==
    IF ~StartsWith(d, SOI) THEN << >> ELSE XmpLoop(d, 2, << >>)

(* ------------------------------------------------------------------ *)
(* xmp_indicates_motion                                               *)
(* ------------------------------------------------------------------ *)
MotionPhotoTag == <<77, 111, 116, 105, 111, 110, 80, 104, 111, 116, 111>>
MicroVideoTag == <<77, 105, 99, 114, 111, 86, 105, 100, 101, 111>>
GCameraMotionPhotoTag ==
    <<71, 67, 97, 109, 101, 114, 97, 58, 77, 111, 116, 105, 111, 110, 80, 104,
      111, 116, 111>>
CameraMotionPhotoTag ==
    <<67, 97, 109, 101, 114, 97, 58, 77, 111, 116, 105, 111, 110, 80, 104, 111,
      116, 111>>

needles == <<MotionPhotoTag, MicroVideoTag, GCameraMotionPhotoTag, CameraMotionPhotoTag>>

\* an evaluator satisfied by any metadata packet at all
xmp_any_packet(xmps) == xmps # << >>

xmp_indicates_motion(xmps) ==
    \E x \in 1..Len(xmps) : \E nd \in 1..Len(needles) : Contains(xmps[x], needles[nd])

(* ------------------------------------------------------------------ *)
(* extract_from_file, up to the write                                 *)
(* ------------------------------------------------------------------ *)
\* lines 139-181 and 186: the outcome, the functions called on the way, and
\* the bytes handed to write_bytes on success
extract_from_file(d, require) ==
    LET je == find_jpeg_eoi(d)
        xmps == extract_xmp_packets(d)
        mp4_offset == find_appended_mp4(d, Val(je))
        gate == IF require THEN {"extract_xmp_packets", "xmp_indicates_motion"} ELSE {}
    IN  IF je = None
            THEN [ret |-> FALSE, outcome |-> "NotAJpeg",
                  calls |-> {"find_jpeg_eoi"}, mp4_data |-> None]
        ELSE IF require /\ ~xmp_indicates_motion(xmps)
            THEN [ret |-> FALSE, outcome |-> "NotFlaggedAsMotion",
                  calls |-> {"find_jpeg_eoi"} \cup gate, mp4_data |-> None]
        ELSE IF mp4_offset = None
            THEN [ret |-> FALSE, outcome |-> "NoContainerFound",
                  calls |-> {"find_jpeg_eoi", "find_appended_mp4"} \cup gate,
                  mp4_data |-> None]
        ELSE [ret |-> TRUE, outcome |-> "Success",
              calls |-> {"find_jpeg_eoi", "find_appended_mp4"} \cup gate,
              mp4_data |-> Some(SliceFrom(d, Val(mp4_offset)))]

(* ------------------------------------------------------------------ *)
(* input buffers: concatenations of at most MaxChunks chunks           *)
(* ------------------------------------------------------------------ *)
LocateChunks ==
    { SOI, EOI, FTYP,
      <<0, 0, 0, 24>>,      \* a plausible box size
      <<0, 0, 0, 5>>,       \* a size below the minimum
      <<1, 0, 0, 0>>,       \* a size whose low bytes are below the minimum
      <<102, 116>> }        \* a broken signature

RECURSIVE ChunkBuffers(_, _)
ChunkBuffers(chunks, k) ==
    IF k = 0 THEN { << >> }
    ELSE LET shorter == ChunkBuffers(chunks, k - 1)
         IN  shorter \cup { b \o c : b \in shorter, c \in chunks }

LocateBuffers == ChunkBuffers(LocateChunks, MaxChunks)

(* ------------------------------------------------------------------ *)
(* the locator applied to every buffer and every boundary             *)
(* ------------------------------------------------------------------ *)
ExtractIdle ==
    /\ REQUIRE_XMP_MOTION = FALSE
    /\ built = None
    /\ result = None
    /\ out_files = {}
    /\ epc = "idle"

MainIdle ==
    /\ listing = << >>
    /\ case_sensitive = TRUE
    /\ ext = 0
    /\ pending = << >>
    /\ count_total = 0
    /\ count_extracted = 0
    /\ extracted_videos = << >>
    /\ writers = << >>
    /\ pc = "idle"

XmpIdle ==
    /\ expected = None
    /\ i = 0
    /\ packets = << >>
    /\ iters = 0
    /\ advance = 0
    /\ top = 0
    /\ xpc = "idle"

LocateIdle ==
    /\ jpeg_end = 0
    /\ located = None
    /\ lpc = "idle"

LocateInit ==
    /\ XmpIdle
    /\ ExtractIdle
    /\ MainIdle
    /\ data \in LocateBuffers
    /\ jpeg_end \in 0..Len(data)
    /\ located = None
    /\ lpc = "call"

LocateCall ==
    /\ lpc = "call"
    /\ located' = find_appended_mp4(data, jpeg_end)
    /\ lpc' = "returned"
    /\ UNCHANGED <<data, jpeg_end, xmpVars, extractVars, sharedVars, mainVars>>

LocateNext == LocateCall

SpecLocate == LocateInit /\ [][LocateNext]_vars

(* ------------------------------------------------------------------ *)
(* the metadata scan, one loop iteration at a time                    *)
(* ------------------------------------------------------------------ *)
\* the 2-byte big-endian length field of a segment holding payload
LengthField(payload) == <<(Len(payload) + 2) \div 256, (Len(payload) + 2) % 256>>

MakeSegment(marker, payload) == <<255, marker>> \o LengthField(payload) \o payload

Zeros(k) == [j \in 1..k |-> 0]

ExifTag == <<69, 120, 105, 102>>

\* segments as a writer lays them out: marker, payload, and the packet a
\* reader is to get from it (None when it is no metadata segment)
BuiltSegments ==
    { [marker |-> 225, payload |-> xmp_sig \o <<0>> \o MotionPhotoTag,
       packet |-> Some(MotionPhotoTag)],
      [marker |-> 225, payload |-> xmp_sig \o <<0>> \o ExifTag \o <<0>> \o ExifTag,
       packet |-> Some(ExifTag \o <<0>> \o ExifTag)],
      [marker |-> 225, payload |-> xmp_sig \o <<0>>, packet |-> Some(<< >>)],
      [marker |-> 224, payload |-> xmp_sig \o ExifTag,
       packet |-> Some(xmp_sig \o ExifTag)],
      [marker |-> 225, payload |-> ExifTag \o <<0, 0>> \o xmp_sig, packet |-> None],
      [marker |-> 225, payload |-> SubSeq(xmp_sig, 1, 27) \o <<0>>, packet |-> None],
      [marker |-> 224, payload |-> << >>, packet |-> None],
      [marker |-> 219, payload |-> Zeros(254), packet |-> None] }

RECURSIVE SegmentLists(_)
SegmentLists(k) ==
    IF k = 0 THEN { << >> }
    ELSE LET shorter == SegmentLists(k - 1)
         IN  shorter \cup { Append(l, sg) : l \in shorter, sg \in BuiltSegments }

RECURSIVE Layout(_)
Layout(l) ==
    IF l = << >> THEN << >>
    ELSE MakeSegment(Head(l).marker, Head(l).payload) \o Layout(Tail(l))

RECURSIVE PacketsBuilt(_)
PacketsBuilt(l) ==
    IF l = << >> THEN << >>
    ELSE (IF Head(l).packet = None THEN << >> ELSE <<Val(Head(l).packet)>>)
         \o PacketsBuilt(Tail(l))

\* what follows the segments: the scan must stop at the first byte of each
LateSegment == MakeSegment(225, xmp_sig \o <<0>> \o MotionPhotoTag)

Endings ==
    { << >>,
      <<255>>,
      EOI \o LateSegment,
      <<255, MarkerSOS>> \o LateSegment,
      <<0>> \o LateSegment,
      <<255, 225, 0>>,
      <<255, 225, 0, 1>> \o LateSegment,
      <<255, 225, 0, 0>> \o LateSegment,
      <<255, 225, 0, 200>> \o LateSegment }

BuiltCases ==
    { [data |-> SOI \o Layout(l) \o e, expected |-> Some(PacketsBuilt(l))] :
        l \in SegmentLists(MaxSegments), e \in Endings }
    \cup
    { [data |-> h \o Layout(l), expected |-> Some(<< >>)] :
        l \in SegmentLists(1), h \in { << >>, <<255>>, <<216, 255>>, <<255, 217>> } }

\* every short byte string over the bytes the scan tells apart
ScanBytes == {255, 225, 217, 0, 2}

RECURSIVE ByteStrings(_, _)
ByteStrings(alphabet, k) ==
    IF k = 0 THEN { << >> }
    ELSE LET shorter == ByteStrings(alphabet, k - 1)
         IN  shorter \cup { Append(b, c) : b \in shorter, c \in alphabet }

RawCases ==
    { [data |-> SOI \o t, expected |-> None] : t \in ByteStrings(ScanBytes, MaxScanBytes) }

XmpInit ==
    /\ LocateIdle
    /\ ExtractIdle
    /\ MainIdle
    /\ \E c \in BuiltCases \cup RawCases :
          /\ data = c.data
          /\ expected = c.expected
    /\ i = 0
    /\ packets = << >>
    /\ iters = 0
    /\ advance = 0
    /\ top = 0
    /\ xpc = "call"

\* lines 39-46: not a JPEG, or the scan starts behind the SOI marker
XmpEnter ==
    /\ xpc = "call"
    /\ top' = Min(2, Len(data))
    /\ IF ~StartsWith(data, SOI)
          THEN xpc' = "returned" /\ i' = 0
          ELSE xpc' = "loop" /\ i' = 2
    /\ UNCHANGED <<data, locateVars, extractVars, sharedVars, mainVars, expected, packets, iters, advance>>

\* lines 47-72: one iteration of the while loop
XmpIterate ==
    /\ xpc = "loop"
    /\ i < Len(data) - 1
    /\ LET r == XmpIteration(data, i, packets)
       IN  /\ iters' = iters + 1
           /\ top' = Max(top, r.top)
           /\ packets' = r.packets
           /\ i' = r.i
           /\ advance' = IF r.stop THEN advance ELSE r.i - i
           /\ xpc' = IF r.stop THEN "returned" ELSE "loop"
    /\ UNCHANGED <<data, locateVars, extractVars, sharedVars, mainVars, expected>>

\* line 47 false, line 73
XmpExit ==
    /\ xpc = "loop"
    /\ ~(i < Len(data) - 1)
    /\ xpc' = "returned"
    /\ UNCHANGED <<data, locateVars, extractVars, sharedVars, mainVars, expected, i, packets, iters, advance, top>>

XmpNext == XmpEnter \/ XmpIterate \/ XmpExit

SpecXmp == XmpInit /\ [][XmpNext]_vars

\* the scan stepped through the loop returns what the function returns
XmpStepsAgree == xpc = "returned" => packets = extract_xmp_packets(data)

(* ------------------------------------------------------------------ *)
(* extract_from_file on one file                                      *)
(* ------------------------------------------------------------------ *)
Isom == <<105, 115, 111, 109>>

\* metadata segments in front of the scan data, and whether a reader of the
\* metadata finds a motion tag in them
MetaSegments ==
    { [bytes |-> MakeSegment(225, xmp_sig \o <<0>> \o <<60>> \o MotionPhotoTag \o <<62>>),
       flagged |-> TRUE],
      [bytes |-> MakeSegment(225, xmp_sig \o MicroVideoTag), flagged |-> TRUE],
      [bytes |-> MakeSegment(225, xmp_sig \o <<0>> \o SubSeq(MotionPhotoTag, 1, 10)),
       flagged |-> FALSE],
      [bytes |-> MakeSegment(225, ExifTag \o <<0>> \o MotionPhotoTag), flagged |-> FALSE] }

RECURSIVE MetaLists(_)
MetaLists(k) ==
    IF k = 0 THEN { [bytes |-> << >>, flagged |-> FALSE] }
    ELSE LET shorter == MetaLists(k - 1)
         IN  shorter \cup { [bytes |-> l.bytes \o sg.bytes,
                             flagged |-> l.flagged \/ sg.flagged] :
                             l \in shorter, sg \in MetaSegments }

\* from the SOS marker to the end of the image, the final EOI excluded
ScanParts ==
    { <<255, MarkerSOS, 1, 2, 3>>,
      <<255, MarkerSOS>> \o LateSegment,
      <<255, MarkerSOS, 1>> \o FTYP \o EOI \o <<7, 7>>,
      <<255, MarkerSOS, 1>> \o EOI \o <<7, 7>>,
      <<255, MarkerSOS>> \o EOI \o <<0, 0, 0, 24>> \o FTYP \o <<9>>,
      <<255, MarkerSOS>> \o EOI \o FTYP,
      <<255, MarkerSOS>> \o EOI \o <<0, 0, 0, 5>> \o FTYP }

Heads == { SOI, <<216, 255>> }

ImageEnds == { EOI, << >> }

\* what follows the image
Tails ==
    { <<0, 0, 0, 24>> \o FTYP \o Isom,
      <<0, 0, 0, 16>> \o FTYP,
      <<1, 0, 0, 0>> \o FTYP \o <<1>>,
      FTYP \o FTYP \o <<1>>,
      <<0, 0, 0, 24>> \o FTYP \o EOI \o <<0, 0, 0, 32>> \o FTYP,
      <<0, 0, 0, 5>> \o FTYP \o <<0, 0, 0, 24>> \o FTYP,
      << >>,
      <<7, 7>> \o <<0, 0, 0, 24>> \o FTYP \o <<1>>,
      FTYP,
      <<109, 111, 111, 118>> }

BuiltFiles ==
    { [jpeg_bytes |-> h \o m.bytes \o sc \o e,
       container_bytes |-> t,
       flagged |-> (h = SOI /\ m.flagged)] :
        h \in Heads, m \in MetaLists(MaxMeta), sc \in ScanParts,
        e \in ImageEnds, t \in Tails }

\* out_file.write_bytes(mp4_data) for the .mp4 named after stem
WriteBytes(files, stem, bytes) ==
    { f \in files : f.name # stem } \cup { [name |-> stem, bytes |-> bytes] }

ExtractInit ==
    /\ LocateIdle
    /\ XmpIdle
    /\ MainIdle
    /\ REQUIRE_XMP_MOTION \in BOOLEAN
    /\ \E f \in BuiltFiles :
          /\ built = Some(f)
          /\ data = f.jpeg_bytes \o f.container_bytes
    /\ result = None
    /\ out_files = {}
    /\ epc = "call"

\* the call returns True or False
ExtractReturns ==
    /\ epc = "call"
    /\ LET r == extract_from_file(data, REQUIRE_XMP_MOTION)
       IN  /\ result' = Some(r)
           /\ out_files' = IF r.ret THEN WriteBytes(out_files, "a", Val(r.mp4_data))
                                    ELSE out_files
    /\ epc' = "returned"
    /\ UNCHANGED <<data, locateVars, xmpVars, mainVars, built, REQUIRE_XMP_MOTION>>

\* line 136: read_bytes raises
ExtractReadFails ==
    /\ epc = "call"
    /\ epc' = "read_raised"
    /\ UNCHANGED <<data, locateVars, xmpVars, mainVars, sharedVars, built, result>>

\* lines 184, 189: mkdir or write_bytes raises
ExtractWriteFails ==
    /\ epc = "call"
    /\ extract_from_file(data, REQUIRE_XMP_MOTION).ret
    /\ epc' = "write_raised"
    /\ UNCHANGED <<data, locateVars, xmpVars, mainVars, sharedVars, built, result>>

ExtractNext == ExtractReturns \/ ExtractReadFails \/ ExtractWriteFails

SpecExtract == ExtractInit /\ [][ExtractNext]_vars

(* ------------------------------------------------------------------ *)
(* main: the batch loop                                               *)
(* ------------------------------------------------------------------ *)
\* the four patterns of line 342, by the suffix they ask for
Patterns == <<"jpg", "jpeg", "JPG", "JPEG">>

Lower(sfx) == IF sfx \in {"jpg", "JPG"} THEN "jpg" ELSE "jpeg"

\* whether "*.<pat>" matches a file name
Matches(name, pat, cs) ==
    IF cs THEN name.suffix = pat ELSE Lower(name.suffix) = Lower(pat)

\* INPUT_DIR.glob("*.<pat>")
Glob(files, pat, cs) == SelectSeq(files, LAMBDA f : Matches(f.name, pat, cs))

Names ==
    { [stem |-> "a", suffix |-> "jpg"],
      [stem |-> "a", suffix |-> "jpeg"],
      [stem |-> "b", suffix |-> "JPG"] }

\* file contents of the batch
Contents ==
    { SOI \o <<255, MarkerSOS, 1>> \o EOI \o <<0, 0, 0, 24>> \o FTYP \o Isom,
      SOI \o <<255, MarkerSOS, 2>> \o EOI \o <<0, 0, 0, 32>> \o FTYP \o <<1>>,
      SOI \o LateSegment \o <<255, MarkerSOS>> \o EOI \o <<0, 0, 0, 28>> \o FTYP,
      SOI \o <<255, MarkerSOS, 1>> \o EOI,
      <<1, 2, 3>> }

RECURSIVE Listings(_)
Listings(k) ==
    IF k = 0 THEN { << >> }
    ELSE LET shorter == Listings(k - 1)
         IN  shorter \cup
             { Append(l, [name |-> nm, data |-> c]) :
                 l \in { x \in shorter : Len(x) = k - 1 },
                 nm \in Names, c \in Contents }

DistinctNames(l) == \A a, b \in 1..Len(l) : a # b => l[a].name # l[b].name

\* lines 338-340
Init ==
    /\ LocateIdle
    /\ XmpIdle
    /\ data = << >>
    /\ built = None
    /\ result = None
    /\ epc = "idle"
    /\ REQUIRE_XMP_MOTION \in BOOLEAN
    /\ case_sensitive \in BOOLEAN
    /\ listing \in { l \in Listings(MaxFiles) : DistinctNames(l) }
    /\ out_files = {}
    /\ ext = 0
    /\ pending = << >>
    /\ count_total = 0
    /\ count_extracted = 0
    /\ extracted_videos = << >>
    /\ writers = << >>
    /\ pc = "loop"

\* line 342-343: the next pattern's glob starts
MainNextPattern ==
    /\ pc = "loop"
    /\ pending = << >>
    /\ ext < Len(Patterns)
    /\ ext' = ext + 1
    /\ pending' = Glob(listing, Patterns[ext + 1], case_sensitive)
    /\ UNCHANGED <<data, locateVars, xmpVars, extractVars, sharedVars, listing,
                   case_sensitive, count_total, count_extracted, extracted_videos,
                   writers, pc>>

\* lines 344-351: one candidate, extract_from_file returns
MainIterate ==
    /\ pc = "loop"
    /\ pending # << >>
    /\ LET jpg == Head(pending)
           r == extract_from_file(jpg.data, REQUIRE_XMP_MOTION)
       IN  /\ count_total' = count_total + 1
           /\ IF r.ret
                 THEN /\ out_files' = WriteBytes(out_files, jpg.name.stem, Val(r.mp4_data))
                      /\ count_extracted' = count_extracted + 1
                      /\ extracted_videos' = Append(extracted_videos, jpg.name.stem)
                      /\ writers' = Append(writers, jpg.name)
                 ELSE UNCHANGED <<out_files, count_extracted, extracted_videos, writers>>
    /\ pending' = Tail(pending)
    /\ UNCHANGED <<data, locateVars, xmpVars, extractVars, REQUIRE_XMP_MOTION,
                   listing, case_sensitive, ext, pc>>

\* lines 344-345, 136: read_bytes raises and nothing catches it
MainReadError ==
    /\ pc = "loop"
    /\ pending # << >>
    /\ count_total' = count_total + 1
    /\ pc' = "read_raised"
    /\ UNCHANGED <<data, locateVars, xmpVars, extractVars, sharedVars, listing,
                   case_sensitive, ext, pending, count_extracted, extracted_videos,
                   writers>>

\* lines 344-345, 184-189: mkdir or write_bytes raises and nothing catches it
MainWriteError ==
    /\ pc = "loop"
    /\ pending # << >>
    /\ extract_from_file(Head(pending).data, REQUIRE_XMP_MOTION).ret
    /\ count_total' = count_total + 1
    /\ pc' = "write_raised"
    /\ UNCHANGED <<data, locateVars, xmpVars, extractVars, sharedVars, listing,
                   case_sensitive, ext, pending, count_extracted, extracted_videos,
                   writers>>

\* line 353: the summary
MainSummary ==
    /\ pc = "loop"
    /\ pending = << >>
    /\ ext = Len(Patterns)
    /\ pc' = "done"
    /\ UNCHANGED <<data, locateVars, xmpVars, extractVars, sharedVars, listing,
                   case_sensitive, ext, pending, count_total, count_extracted,
                   extracted_videos, writers>>

Next ==
    \/ MainNextPattern
    \/ MainIterate
    \/ MainReadError
    \/ MainWriteError
    \/ MainSummary

Spec == Init /\ [][Next]_vars

(* ------------------------------------------------------------------ *)
(* properties of extract_xmp_packets (SpecXmp)                        *)
(* ------------------------------------------------------------------ *)
\* C6: the loop of extract_xmp_packets terminates: every iteration that does not
\* stop the scan moves i forward by at least 4 bytes (so no segment is visited
\* twice), no index outside the buffer is read, and there are at most
\* len(data) / 4 iterations.
C6_ScanForwardAndBounded ==
    /\ advance = 0 \/ advance >= 4
    /\ (xpc = "loop" /\ iters > 0) => advance >= 4
    /\ top <= Len(data)
    /\ i <= Len(data)
    /\ iters * 4 <= Len(data)

C6_Witness ==
    /\ xpc = "returned"
    /\ iters = 2
    /\ iters * 4 = Len(data)
    /\ advance = 4
    /\ top = Len(data)

\* C8: extract_xmp_packets returns an empty list for a buffer that does not
\* start with FFD8; otherwise, in buffer order, one payload per well-formed
\* segment in front of the first EOI/SOS marker or malformed point whose
\* payload starts with the signature: the bytes after the payload's first zero
\* byte when it has one, the whole payload when it has none.
C8_PacketsAreThoseBuilt ==
    (xpc = "returned" /\ expected # None) => packets = Val(expected)

C8_Witness ==
    /\ xpc = "returned"
    /\ expected # None
    /\ Len(packets) = 2
    /\ packets[1] = xmp_sig \o ExifTag
    /\ packets[2] = ExifTag \o <<0>> \o ExifTag
    /\ i < Len(data)

(* ------------------------------------------------------------------ *)
(* properties of find_appended_mp4 (SpecLocate)                       *)
(* ------------------------------------------------------------------ *)
\* the signature occupies the 0-based indices k..k+3 of d
SignatureAt(d, k) ==
    /\ k >= 0
    /\ k + 4 <= Len(d)
    /\ d[k + 1] = 102 /\ d[k + 2] = 116 /\ d[k + 3] = 121 /\ d[k + 4] = 112

\* the 4 bytes at 0-based indices k..k+3, read as an unsigned big-endian
\* number, are below 16
SizeFieldBelow16(d, k) ==
    d[k + 1] = 0 /\ d[k + 2] = 0 /\ d[k + 3] = 0 /\ d[k + 4] < 16

\* d = J ++ C with Len(J) = k and C = size field >= 16, 'ftyp', rest
ContainerAt(d, k) ==
    /\ k >= 0
    /\ SignatureAt(d, k + 4)
    /\ ~SizeFieldBelow16(d, k)

\* C1 as stated: for every buffer J ++ C, C beginning with a size field >= 16
\* followed by 'ftyp', find_appended_mp4(J ++ C, len(J)) returns len(J), for
\* every choice of the size bytes.
C1_AsStated ==
    (lpc = "returned" /\ ContainerAt(data, jpeg_end))
        => located = Some(jpeg_end)

\* C1 amended: the same, provided the four size bytes are not themselves the
\* bytes 'ftyp' (the locator decides on the first 'ftyp' of the tail, which is
\* then the size field, and rejects it for having no 4 bytes in front).
C1_SizeNotSignature ==
    (lpc = "returned" /\ ContainerAt(data, jpeg_end) /\ ~SignatureAt(data, jpeg_end))
        => located = Some(jpeg_end)

C1_Witness ==
    /\ lpc = "returned"
    /\ jpeg_end >= 4
    /\ ContainerAt(data, jpeg_end)
    /\ ~SignatureAt(data, jpeg_end)
    /\ data[jpeg_end + 1] # 0
    /\ located = Some(jpeg_end)

\* C3: whenever find_appended_mp4(data, jpeg_end) returns an offset, with
\* 0 <= jpeg_end <= len(data), the offset is >= jpeg_end; in particular when
\* jpeg_end is the boundary find_jpeg_eoi returns.
C3_OffsetNotBeforeBoundary ==
    (lpc = "returned" /\ located # None) => Val(located) >= jpeg_end

C3_Witness ==
    /\ lpc = "returned"
    /\ find_jpeg_eoi(data) = Some(jpeg_end)
    /\ \E k \in 0..(jpeg_end - 1) : SignatureAt(data, k)
    /\ located = Some(jpeg_end)

\* the 0-based indices >= je at which an occurrence of 'ftyp' starts
OccurrencesFrom(d, je) == { k \in je..Len(d) : SignatureAt(d, k) }

Lowest(S) == CHOOSE k \in S : \A m \in S : k <= m

EoiAt(d, k) == k >= 0 /\ k + 2 <= Len(d) /\ d[k + 1] = 255 /\ d[k + 2] = 217

HasEoi(d) == \E k \in 0..Len(d) : EoiAt(d, k)

\* the index just behind the first FFD9 pair of d
FirstBoundary(d) == Lowest({ k \in 0..Len(d) : EoiAt(d, k) }) + 2

\* starts with FFD8 and ends with FFD9
ProperJpeg(j) ==
    /\ Len(j) >= 4
    /\ j[1] = 255 /\ j[2] = 216
    /\ j[Len(j) - 1] = 255 /\ j[Len(j)] = 217

\* C2 as stated: with the motion check disabled, extract_from_file on
\* jpeg_bytes + container_bytes (FFD8 ... FFD9, then size >= 16 and 'ftyp')
\* writes exactly container_bytes, also when jpeg_bytes holds an earlier FFD9
\* pair or the bytes 'ftyp'.
C2_AsStated ==
    (/\ epc = "returned"
     /\ ~REQUIRE_XMP_MOTION
     /\ ProperJpeg(Val(built).jpeg_bytes)
     /\ ContainerAt(Val(built).container_bytes, 0))
        => out_files = { [name |-> "a", bytes |-> Val(built).container_bytes] }

\* the first 'ftyp' at or after the first FFD9 pair of the file is the one of
\* the container's header
NoEarlierSignature(f) ==
    /\ ~SignatureAt(f.container_bytes, 0)
    /\ \A k \in FirstBoundary(f.jpeg_bytes)..Len(f.jpeg_bytes) :
          ~SignatureAt(f.jpeg_bytes, k)

\* C2 amended: the same round trip, provided the bytes 'ftyp' do not occur in
\* jpeg_bytes at or after the end of its first FFD9 pair and the four size
\* bytes of the container are not 'ftyp'; it holds when jpeg_bytes has an
\* earlier FFD9 pair, and when it has 'ftyp' in front of its first FFD9.
C2_RoundTrip ==
    (/\ epc = "returned"
     /\ ~REQUIRE_XMP_MOTION
     /\ ProperJpeg(Val(built).jpeg_bytes)
     /\ ContainerAt(Val(built).container_bytes, 0)
     /\ NoEarlierSignature(Val(built)))
        => out_files = { [name |-> "a", bytes |-> Val(built).container_bytes] }

C2_Witness ==
    /\ epc = "returned"
    /\ ~REQUIRE_XMP_MOTION
    /\ ProperJpeg(Val(built).jpeg_bytes)
    /\ ContainerAt(Val(built).container_bytes, 0)
    /\ NoEarlierSignature(Val(built))
    /\ FirstBoundary(Val(built).jpeg_bytes) < Len(Val(built).jpeg_bytes)
    /\ \E k \in 0..Len(Val(built).jpeg_bytes) : SignatureAt(Val(built).jpeg_bytes, k)
    /\ HasEoi(Val(built).container_bytes)
    /\ out_files = { [name |-> "a", bytes |-> Val(built).container_bytes] }

\* what the call comes to when the metadata is left out of account
OutcomeWithoutMetadata(d) ==
    IF ~HasEoi(d) THEN "NotAJpeg"
    ELSE IF find_appended_mp4(d, FirstBoundary(d)) = None THEN "NoContainerFound"
    ELSE "Success"

MetadataCalls == {"extract_xmp_packets", "xmp_indicates_motion"}

\* C5: NotFlaggedAsMotion is reached only with REQUIRE_XMP_MOTION on; with it
\* on and no metadata payload holding a marker, extract_from_file returns
\* False without calling find_appended_mp4 and without writing, even when a
\* valid container is appended; with it off, the result does not depend on the
\* metadata.
C5_MotionGate ==
    epc = "returned" =>
        LET r == Val(result)
            f == Val(built)
        IN  /\ r.outcome = "NotFlaggedAsMotion" => (REQUIRE_XMP_MOTION /\ ~f.flagged)
            /\ (REQUIRE_XMP_MOTION /\ ~f.flagged) =>
                  /\ r.ret = FALSE
                  /\ "find_appended_mp4" \notin r.calls
                  /\ out_files = {}
                  /\ HasEoi(data) => r.outcome = "NotFlaggedAsMotion"
            /\ ~REQUIRE_XMP_MOTION =>
                  /\ r.calls \cap MetadataCalls = {}
                  /\ r.outcome = OutcomeWithoutMetadata(data)
                  /\ r.ret = (r.outcome = "Success")

C5_Witness ==
    /\ epc = "returned"
    /\ REQUIRE_XMP_MOTION
    /\ ~Val(built).flagged
    /\ ProperJpeg(Val(built).jpeg_bytes)
    /\ ContainerAt(Val(built).container_bytes, 0)
    /\ NoEarlierSignature(Val(built))
    /\ extract_xmp_packets(data) # << >>
    /\ Val(result).outcome = "NotFlaggedAsMotion"
    /\ out_files = {}

\* C9: every output file extract_from_file writes is data[mp4_offset:] for an
\* mp4_offset at or behind the first-FFD9 boundary, is at least 8 bytes long,
\* has 'ftyp' at bytes 4..7 and a big-endian number >= 16 at bytes 0..3; none
\* is written on an outcome other than Success.
C9_OutputIsContainerShaped ==
    /\ \A f \in out_files :
          /\ Len(f.bytes) >= 8
          /\ SignatureAt(f.bytes, 4)
          /\ ~SizeFieldBelow16(f.bytes, 0)
          /\ HasEoi(data)
          /\ \E off \in FirstBoundary(data)..Len(data) :
                f.bytes = SubSeq(data, off + 1, Len(data))
    /\ out_files # {} => (epc = "returned" /\ Val(result).outcome = "Success")
    /\ (epc = "returned" /\ Val(result).outcome = "Success") => out_files # {}

C9_Witness ==
    /\ epc = "returned"
    /\ Val(result).outcome = "Success"
    /\ \E f \in out_files :
          /\ Len(f.bytes) > 8
          /\ f.bytes # Val(built).container_bytes
          /\ f.bytes[1] # 0

(* ------------------------------------------------------------------ *)
(* properties of main (Spec)                                          *)
(* ------------------------------------------------------------------ *)
\* how many candidates the four globs yield in all
CandidateCount ==
    Len(Glob(listing, Patterns[1], case_sensitive))
    + Len(Glob(listing, Patterns[2], case_sensitive))
    + Len(Glob(listing, Patterns[3], case_sensitive))
    + Len(Glob(listing, Patterns[4], case_sensitive))

\* C4 as stated: a failure on one candidate never aborts the batch: whatever a
\* file yields (NotAJpeg, NotFlaggedAsMotion, NoContainerFound, or a failure of
\* read_bytes, mkdir or write_bytes), every later candidate is still processed
\* and the summary is reached: main never stops anywhere else.
C4_AsStated ==
    pc # "loop" => (pc = "done" /\ count_total = CandidateCount)

\* C10 as stated: no output file written for one candidate is overwritten by
\* the extraction of another, and at the end count_extracted =
\* len(extracted_videos) <= count_total and count_extracted is the number of
\* distinct output files written.
C10_AsStated ==
    /\ \A a, b \in 1..Len(writers) :
          (a # b /\ writers[a] # writers[b]) => extracted_videos[a] # extracted_videos[b]
    /\ pc = "done" =>
          /\ count_extracted = Len(extracted_videos)
          /\ count_extracted <= count_total
          /\ count_extracted = Cardinality(out_files)

====
